---- MODULE Spec2Model ----
(***************************************************************************)
(* A model of the dispatch scheduler of                                    *)
(* crates/dispatch/examples/simple-orchestrator.py: the agent pool, the    *)
(* priority ranking, the claim protocol against the issue store and the    *)
(* run loop with its shutdown signal.  One or more orchestrator processes  *)
(* run against one issue store.  With it, a model of the timestamp         *)
(* reconciler, scripts/migrate_timestamps.py and scripts/fix_timestamps.py:*)
(* one pass of either script over the issue records and the event log.     *)
(***************************************************************************)
EXTENDS Integers, Sequences, FiniteSets, TLC

\* Bounds of the model.
NIssues == 2                \* issues in the store (Spec, SpecMulti)
MaxReady == 3               \* issues in the store (SpecRank)
MaxCap == 2                 \* largest max_concurrent of an agent
PoolIndex == {1, 2}         \* positions of an agent pool
MultiOrchs == {1, 2}        \* the orchestrator processes of SpecMulti
MaxEvents == 3              \* lines of events.jsonl (SpecReconcile)
MaxStored == 2              \* latest timestamp a record holds at the start

VARIABLES
    issues,         \* issue store: the issue dicts, in the store's own order
    assignee,       \* issue store: per issue, "" (ready) or the claiming agent id
    agents,         \* per orchestrator: self.agents, a list of Agent records
    pc,             \* per orchestrator: position in run_daemon / dispatch_cycle
    ready_issues,   \* per orchestrator: dispatch_cycle's local ready_issues
    pos,            \* per orchestrator: index of the for loop's current issue
    agent,          \* per orchestrator: dispatch_cycle's local agent (0: None)
    assignments,    \* per orchestrator: dispatch_cycle's local counter
    assigned,       \* per orchestrator: run_daemon's local, the last return value
    response,       \* history: what the store answered to the last query
    queried,        \* history: the list the last query returned, unsorted
    spare0,         \* history: total spare capacity when the cycle started
    attempts,       \* history: the issues claim_issue was called for, this cycle
    lastClaim,      \* history: what the store did with the cycle's latest claim
    counted,        \* history: ids of the issues counted as assignments, ever
    load0,          \* history: the pool's total load at construction
    interruptedAt,  \* history: the position at which KeyboardInterrupt arrived
    files,          \* record store: .jit/issues/*.json in sorted order
    events_file,    \* .jit/events.jsonl: its lines, or Absent
    script,         \* the reconciler script that is running, or "none"
    dry_run,        \* main's local dry_run
    events,         \* main's local events, the loaded log
    cursor,         \* main's for loop: the files handled so far
    modified_count, \* main's local modified_count
    results,        \* history: what each per-issue call of the pass returned
    files0,         \* history: the record store when the pass started
    last,           \* history: the script of the latest pass that was no dry run
    written         \* history: the files the reconciler has written

vars == <<issues, assignee, agents, pc, ready_issues, pos, agent, assignments,
          assigned, response, queried, spare0, attempts, lastClaim, counted,
          load0, interruptedAt, files, events_file, script, dry_run, events,
          cursor, modified_count, results, files0, last, written>>

storeVars == <<issues, assignee>>
cycleVars == <<ready_issues, pos, agent, assignments>>
histVars == <<response, queried, spare0, attempts, lastClaim, counted, load0>>
orchVars == <<storeVars, agents, pc, cycleVars, assigned, histVars, interruptedAt>>
passVars == <<script, dry_run, events, cursor, modified_count, results, files0>>
recVars == <<files, events_file, passVars, last, written>>

\* The orchestrator processes of this run.
Orchs == DOMAIN pc

-----------------------------------------------------------------------------
(* Data *)

\* Priority values an issue dict may carry; "urgent" stands for any value the
\* ranking does not know.  An issue dict may also lack the key.
PriorityValues == {"critical", "high", "normal", "low", "urgent"}

IssueId(k) == "i" \o ToString(k)

AgentName(o, k) == "w" \o ToString(o) \o "-" \o ToString(k)

\* Agent(id, max_concurrent, current_load)
Agent(id, max_concurrent, current_load) ==
    [id |-> id, max_concurrent |-> max_concurrent, current_load |-> current_load]

RECURSIVE SumSeq(_)
SumSeq(s) == IF s = <<>> THEN 0 ELSE Head(s) + SumSeq(Tail(s))

TotalLoad(pool) == SumSeq([k \in DOMAIN pool |-> pool[k].current_load])
TotalCapacity(pool) == SumSeq([k \in DOMAIN pool |-> pool[k].max_concurrent])
SpareCapacity(pool) == TotalCapacity(pool) - TotalLoad(pool)

-----------------------------------------------------------------------------
(* Priority ranking: dispatch_cycle lines 76-80 *)

priority_order == [critical |-> 0, high |-> 1, normal |-> 2, low |-> 3]

\* dict.get(key, default) on a record
DictGet(d, key, default) == IF key \in DOMAIN d THEN d[key] ELSE default

\* Mutant: the default of the inner get left out, so an absent priority is
\* looked up as None and gets 4.
sort_key_absent_last(i) == DictGet(priority_order, DictGet(i, "priority", "None"), 4)

\* key=lambda i: priority_order.get(i.get("priority", "normal"), 4)
sort_key(i) == DictGet(priority_order, DictGet(i, "priority", "normal"), 4)

\* x placed after every element whose key is <= its own: a stable insertion.
RECURSIVE InsertStable(_, _)
InsertStable(s, x) ==
    IF s = <<>> THEN <<x>>
    ELSE IF sort_key(Head(s)) <= sort_key(x)
         THEN <<Head(s)>> \o InsertStable(Tail(s), x)
         ELSE <<x>> \o s

\* Mutant: a sort that puts an element before those of the same key.
RECURSIVE InsertUnstable(_, _)
InsertUnstable(s, x) ==
    IF s = <<>> THEN <<x>>
    ELSE IF sort_key(Head(s)) < sort_key(x)
         THEN <<Head(s)>> \o InsertUnstable(Tail(s), x)
         ELSE <<x>> \o s

RECURSIVE sort_unstable(_)
sort_unstable(s) ==
    IF s = <<>> THEN <<>>
    ELSE InsertUnstable(sort_unstable(SubSeq(s, 1, Len(s) - 1)), s[Len(s)])

\* list.sort(key=...): ascending by key, stable
RECURSIVE sort(_)
sort(s) ==
    IF s = <<>> THEN <<>>
    ELSE InsertStable(sort(SubSeq(s, 1, Len(s) - 1)), s[Len(s)])

-----------------------------------------------------------------------------
(* Issue store *)

RECURSIVE ReadyFrom(_, _, _)
ReadyFrom(iss, asg, k) ==
    IF k > Len(iss) THEN <<>>
    ELSE (IF asg[k] = "" THEN <<iss[k]>> ELSE <<>>) \o ReadyFrom(iss, asg, k + 1)

\* "jit query ready": the unclaimed issues, in the store's order
StoreReady == ReadyFrom(issues, assignee, 1)

\* The store's index of the issue with this id.
StoreIndex(issue_id) == CHOOSE k \in DOMAIN issues : issues[k].id = issue_id

\* What "jit query ready --json" may answer.
QueryResponses == {"issues", "exit_nonzero", "not_json", "no_issues_key", "not_an_object"}

\* query_ready_issues: the list returned, or the exception that escapes it.
query_ready_issues(resp) ==
    CASE resp = "issues"        -> [raised |-> FALSE, value |-> StoreReady]
      [] resp = "no_issues_key" -> [raised |-> FALSE, value |-> <<>>]
      [] resp = "exit_nonzero"  -> [raised |-> FALSE, value |-> <<>>]
      [] resp = "not_json"      -> [raised |-> FALSE, value |-> <<>>]
      [] resp = "not_an_object" -> [raised |-> TRUE, value |-> <<>>]

-----------------------------------------------------------------------------
(* Agent pool *)

\* The loop of get_available_agent from position k on.
RECURSIVE first_available(_, _)
first_available(pool, k) ==
    IF k > Len(pool) THEN 0
    ELSE IF pool[k].current_load < pool[k].max_concurrent THEN k
    ELSE first_available(pool, k + 1)

\* The least and the greatest of a set of positions, 0 for the empty set.
LeastOf(S) == IF S = {} THEN 0 ELSE CHOOSE k \in S : \A j \in S : k <= j
GreatestOf(S) == IF S = {} THEN 0 ELSE CHOOSE k \in S : \A j \in S : k >= j

\* Mutant: <= for <, so a saturated agent counts as available.
get_available_agent_le(pool) ==
    LeastOf({k \in DOMAIN pool : pool[k].current_load <= pool[k].max_concurrent})

\* Mutant: the first agent returned when none has spare capacity.
get_available_agent_fallback(pool) ==
    IF first_available(pool, 1) = 0 THEN 1 ELSE first_available(pool, 1)

\* Mutant: the last agent with spare capacity, not the first.
get_available_agent_last(pool) ==
    GreatestOf({k \in DOMAIN pool : pool[k].current_load < pool[k].max_concurrent})

\* get_available_agent: index of the first agent with spare capacity, 0 for None
get_available_agent(pool) == first_available(pool, 1)

\* Mutant: the load increment left out.
record_load_skip(pool, a) == pool

\* Mutant: the agent's load set back when an assignment is recorded.
record_load_reset(pool, a) == [pool EXCEPT ![a].current_load = 0]

\* agent.current_load += 1
record_load(pool, a) == [pool EXCEPT ![a].current_load = @ + 1]

\* agent_id_full = f"agent:{agent.id}"
agent_id_full(a) == "agent:" \o a.id

-----------------------------------------------------------------------------
(* Timestamp reconciler: data *)

\* Python's None, as dict.get returns it for a key that is not there.
None == "None"

\* not x, for the values the scripts test: None and the empty string
falsy(x) == x = None \/ x = ""

\* d[key] = value on a dict
SetKey(d, key, value) == (key :> value) @@ d

\* Instants: those of the log's lines, of the records' modification times and
\* of the reconciler's own writes.
Now == MaxEvents + 2
Instants == 0..Now

\* The timestamp string the log carries for an event at instant t.
LogStamp(t) == "t" \o ToString(t) \o "Z"

\* to_rfc3339: the instant in the local zone's fixed-offset format, which is
\* another string than the log's for the same instant.
to_rfc3339(dt) == "t" \o ToString(dt) \o "+02:00"

\* The instant a timestamp string denotes.
At(ts) == CHOOSE t \in Instants : ts \in {LogStamp(t), to_rfc3339(t)}

\* One parsed line of events.jsonl: the kind is under the key attr.
Event(issue_id, attr, kind, t) ==
    (attr :> kind) @@ [issue_id |-> issue_id, timestamp |-> LogStamp(t)]

\* A line json.loads rejects.
Malformed == [raw |-> "{"]
JSONDecodeError(line) == "raw" \in DOMAIN line

\* An issue dict: a title, and the keys whose value is not None.
IssueRecord(id, created_at, updated_at) ==
    LET a == [title |-> "T"]
        b == IF id = None THEN a ELSE SetKey(a, "id", id)
        c == IF created_at = None THEN b ELSE SetKey(b, "created_at", created_at)
    IN  IF updated_at = None THEN c ELSE SetKey(c, "updated_at", updated_at)

\* An issue file: the dict it holds, its modification time, its layout.
IssueFile(issue, mtime) == [issue |-> issue, mtime |-> mtime, format |-> "stored"]

-----------------------------------------------------------------------------
(* Timestamp reconciler: the functions of the two scripts *)

\* load_events: no events when the file is absent; lines that do not parse
\* are left out.
load_events(file) ==
    IF ~file.exists THEN <<>>
    ELSE SelectSeq(file.lines, LAMBDA line : ~JSONDecodeError(line))

\* [e for e in events if e.get('issue_id') == issue_id]
issue_events_of(issue_id, evs) ==
    SelectSeq(evs, LAMBDA e : DictGet(e, "issue_id", None) = issue_id)

\* migrate_timestamps.py lines 59-62: the timestamp of the first event whose
\* 'event_type' is 'issue_created', None when there is none.
RECURSIVE first_created(_)
first_created(issue_events) ==
    IF issue_events = <<>> THEN None
    ELSE IF DictGet(Head(issue_events), "event_type", None) = "issue_created"
         THEN DictGet(Head(issue_events), "timestamp", None)
         ELSE first_created(Tail(issue_events))

\* find_timestamps_from_events: (created_at, updated_at)
find_timestamps_from_events(issue_id, evs) ==
    LET issue_events == issue_events_of(issue_id, evs) IN
    IF issue_events = <<>> THEN <<None, None>>
    ELSE <<first_created(issue_events),
           DictGet(issue_events[Len(issue_events)], "timestamp", None)>>

\* Mutant: the time of the pass taken instead of the file's modification time.
get_file_mtime_now(file) == to_rfc3339(Now)

\* get_file_mtime_rfc3339: os.path.getmtime, in the local zone's format
get_file_mtime_rfc3339(file) == to_rfc3339(file.mtime)

\* Mutant: the check for timestamps that are there left out.
has_timestamps_never(issue) == FALSE

\* migrate_issue line 94
has_timestamps(issue) ==
    "created_at" \in DOMAIN issue /\ "updated_at" \in DOMAIN issue

\* Mutant: the flag is not looked at.
is_dry_run_ignored(flag) == FALSE

\* if dry_run: return True, before anything is written
is_dry_run(flag) == flag

\* Mutant: the file written with the identifier and the two timestamps only.
write_back_overwrite(file, issue) ==
    [issue |-> [k \in DOMAIN issue \cap {"id", "created_at", "updated_at"} |-> issue[k]],
     mtime |-> Now, format |-> "indent2"]

\* open(issue_file, 'w'); json.dump(issue, f, indent=2); f.write('\n')
write_back(file, issue) == [issue |-> issue, mtime |-> Now, format |-> "indent2"]

\* migrate_issue: what it returns and the file as it leaves it
migrate_issue(file, evs, flag) ==
    LET issue == file.issue
        issue_id == DictGet(issue, "id", None)
        found == find_timestamps_from_events(issue_id, evs)
        file_timestamp == get_file_mtime_rfc3339(file)
        created_at == IF falsy(found[1]) THEN file_timestamp ELSE found[1]
        updated_at == IF falsy(found[2]) THEN file_timestamp ELSE found[2]
        patched == SetKey(SetKey(issue, "created_at", created_at),
                          "updated_at", updated_at)
    IN
    IF falsy(issue_id) THEN [modified |-> FALSE, file |-> file]
    ELSE IF has_timestamps(issue) THEN [modified |-> FALSE, file |-> file]
    ELSE IF is_dry_run(flag) THEN [modified |-> TRUE, file |-> file]
    ELSE [modified |-> TRUE, file |-> write_back(file, patched)]

\* fix_issue_timestamps: what it returns and the file as it leaves it
fix_issue_timestamps(file, evs, flag) ==
    LET issue == file.issue
        issue_id == DictGet(issue, "id", None)
        old_created == DictGet(issue, "created_at", None)
        old_updated == DictGet(issue, "updated_at", None)
        issue_events == issue_events_of(issue_id, evs)
        first_timestamp == DictGet(issue_events[1], "timestamp", None)
        last_timestamp == DictGet(issue_events[Len(issue_events)], "timestamp", None)
        patched == SetKey(SetKey(issue, "created_at", first_timestamp),
                          "updated_at", last_timestamp)
    IN
    IF falsy(issue_id) THEN [modified |-> FALSE, file |-> file]
    ELSE IF falsy(old_created) \/ falsy(old_updated)
    THEN [modified |-> FALSE, file |-> file]
    ELSE IF issue_events = <<>> THEN [modified |-> FALSE, file |-> file]
    ELSE IF falsy(first_timestamp) \/ falsy(last_timestamp)
    THEN [modified |-> FALSE, file |-> file]
    ELSE IF old_created = first_timestamp /\ old_updated = last_timestamp
    THEN [modified |-> FALSE, file |-> file]
    ELSE IF is_dry_run(flag) THEN [modified |-> TRUE, file |-> file]
    ELSE [modified |-> TRUE, file |-> write_back(file, patched)]

\* The per-issue function of a script.
Scripts == {"migrate", "repair"}
per_issue(s, file, evs, flag) ==
    IF s = "migrate" THEN migrate_issue(file, evs, flag)
    ELSE fix_issue_timestamps(file, evs, flag)

\* No reconciler runs: the reconciler's variables when only the scheduler is
\* looked at.
NoReconciler ==
    /\ files = <<>>
    /\ events_file = [exists |-> FALSE, lines |-> <<>>]
    /\ script = "none"
    /\ dry_run = FALSE
    /\ events = <<>>
    /\ cursor = 0
    /\ modified_count = 0
    /\ results = <<>>
    /\ files0 = <<>>
    /\ last = "none"
    /\ written = {}

-----------------------------------------------------------------------------
(* Initial states *)

ValidPool(pool) ==
    \A k \in DOMAIN pool :
        /\ pool[k].max_concurrent >= 1
        /\ 0 <= pool[k].current_load
        /\ pool[k].current_load <= pool[k].max_concurrent

\* Every assignment of valid pools to the orchestrators: any capacity up to
\* MaxCap, any load up to the capacity.
AnyPools(orchs) ==
    {ps \in {[o \in orchs |-> [k \in PoolIndex |->
                 Agent(AgentName(o, k), cap[o, k], load[o, k])]] :
                cap \in [orchs \X PoolIndex -> 1..MaxCap],
                load \in [orchs \X PoolIndex -> 0..MaxCap]} :
        \A o \in orchs : ValidPool(ps[o])}

\* Pools as main() builds them, every load 0, with one capacity c for all.
FreshPools(orchs, caps) ==
    {[o \in orchs |-> [k \in PoolIndex |-> Agent(AgentName(o, k), c, 0)]] :
        c \in caps}

\* The k-th issue's dict, without a priority key when p is "".
IssueDict(k, p) ==
    IF p = "" THEN [id |-> IssueId(k)] ELSE [id |-> IssueId(k), priority |-> p]

\* Stores of n issues whose priority, when present, is in prios.
StoreContents(n, prios) ==
    {[k \in 1..n |-> IssueDict(k, c[k])] : c \in [1..n -> prios \cup {""}]}

InitWith(orchs, pools, maxIssues, prios) ==
    /\ \E n \in 0..maxIssues : issues \in StoreContents(n, prios)
    /\ assignee = [k \in DOMAIN issues |-> ""]
    /\ agents \in pools
    /\ pc = [o \in orchs |-> "idle"]
    /\ ready_issues = [o \in orchs |-> <<>>]
    /\ pos = [o \in orchs |-> 0]
    /\ agent = [o \in orchs |-> 0]
    /\ assignments = [o \in orchs |-> 0]
    /\ assigned = [o \in orchs |-> 0]
    /\ response = [o \in orchs |-> "none"]
    /\ queried = [o \in orchs |-> <<>>]
    /\ spare0 = [o \in orchs |-> SpareCapacity(agents[o])]
    /\ attempts = [o \in orchs |-> <<>>]
    /\ lastClaim = [o \in orchs |-> "none"]
    /\ counted = [o \in orchs |-> {}]
    /\ load0 = [o \in orchs |-> TotalLoad(agents[o])]
    /\ interruptedAt = [o \in orchs |-> "never"]
    /\ NoReconciler

\* One orchestrator, any valid pool.
Init == InitWith({1}, AnyPools({1}), NIssues, {"critical", "high"})

\* One orchestrator with a fresh pool of full capacity, any priorities.
InitRank == InitWith({1}, FreshPools({1}, {MaxCap}), MaxReady, PriorityValues)

\* Several orchestrators just started, against one store.
InitMulti == InitWith(MultiOrchs, FreshPools(MultiOrchs, 1..MaxCap), NIssues, {"high"})

-----------------------------------------------------------------------------
(* Actions *)

\* run_daemon line 106 and dispatch_cycle lines 71-82: the query, the early
\* return on an empty list, the sort.  An exception that escapes the query
\* escapes run_daemon too: it handles KeyboardInterrupt only.
Query(o) ==
    /\ pc[o] = "idle"
    /\ \E resp \in QueryResponses :
        LET r == query_ready_issues(resp) IN
        /\ response' = [response EXCEPT ![o] = resp]
        /\ queried' = [queried EXCEPT ![o] = r.value]
        /\ spare0' = [spare0 EXCEPT ![o] = SpareCapacity(agents[o])]
        /\ attempts' = [attempts EXCEPT ![o] = <<>>]
        /\ lastClaim' = [lastClaim EXCEPT ![o] = "none"]
        /\ IF r.raised
           THEN /\ pc' = [pc EXCEPT ![o] = "crashed"]
                /\ UNCHANGED <<ready_issues, assigned>>
           ELSE IF r.value = <<>>
           THEN /\ pc' = [pc EXCEPT ![o] = "idle"]
                /\ assigned' = [assigned EXCEPT ![o] = 0]
                /\ UNCHANGED ready_issues
           ELSE /\ pc' = [pc EXCEPT ![o] = "walk"]
                /\ ready_issues' = [ready_issues EXCEPT ![o] = sort(r.value)]
                /\ UNCHANGED assigned
    /\ UNCHANGED <<storeVars, agents, pos, agent, assignments, counted, load0,
                   interruptedAt>>

\* The locals of dispatch_cycle are gone when it is left.
DropLocals(o) ==
    /\ ready_issues' = [ready_issues EXCEPT ![o] = <<>>]
    /\ pos' = [pos EXCEPT ![o] = 0]
    /\ agent' = [agent EXCEPT ![o] = 0]
    /\ assignments' = [assignments EXCEPT ![o] = 0]

\* dispatch_cycle line 97 and run_daemon lines 106-110: the cycle returns its
\* counter and the loop sleeps until the next cycle.
Return(o) ==
    /\ assigned' = [assigned EXCEPT ![o] = assignments[o]]
    /\ pc' = [pc EXCEPT ![o] = "idle"]
    /\ DropLocals(o)

\* dispatch_cycle lines 84-87: the for loop takes the next issue and asks for
\* an agent; the cycle returns when the list is exhausted or no agent is
\* available.
Walk(o) ==
    /\ pc[o] = "walk"
    /\ IF pos[o] < Len(ready_issues[o])
       THEN LET a == get_available_agent(agents[o]) IN
            IF a = 0
            THEN Return(o)
            ELSE /\ pos' = [pos EXCEPT ![o] = pos[o] + 1]
                 /\ agent' = [agent EXCEPT ![o] = a]
                 /\ pc' = [pc EXCEPT ![o] = "claim"]
                 /\ UNCHANGED <<ready_issues, assignments, assigned>>
       ELSE Return(o)
    /\ UNCHANGED <<storeVars, agents, histVars, interruptedAt>>

\* The store's claim: an atomic transition of a ready issue to the agent, or a
\* failure that changes nothing (issue no longer ready, or store unreachable).
StoreClaim(issue_id, agent_id, reachable) ==
    LET k == StoreIndex(issue_id) IN
    IF reachable /\ assignee[k] = ""
    THEN [ok |-> TRUE, assignee |-> [assignee EXCEPT ![k] = agent_id]]
    ELSE [ok |-> FALSE, assignee |-> assignee]

\* Mutant: the command run without check=True, so a failure raises nothing.
claim_issue_unchecked(ok) == TRUE

\* Mutant: the result inverted.
claim_issue_negated(ok) == ~ok

\* claim_issue: True when the command succeeded, False on CalledProcessError
claim_issue(ok) == ok

\* dispatch_cycle lines 89-92: the claim attempt for the current issue
Claim(o) ==
    /\ pc[o] = "claim"
    /\ \E reachable \in BOOLEAN :
        LET issue == ready_issues[o][pos[o]]
            r == StoreClaim(issue.id, agent_id_full(agents[o][agent[o]]), reachable)
        IN
        /\ assignee' = r.assignee
        /\ attempts' = [attempts EXCEPT ![o] = Append(attempts[o], issue)]
        /\ lastClaim' = [lastClaim EXCEPT ![o] = IF r.ok THEN "ok" ELSE "failed"]
        /\ pc' = [pc EXCEPT ![o] = IF claim_issue(r.ok) THEN "record" ELSE "walk"]
    /\ UNCHANGED <<issues, agents, cycleVars, assigned, response, queried, spare0,
                   counted, load0, interruptedAt>>

\* dispatch_cycle lines 93-95: the load increment and the assignment counter
RecordAssignment(o) ==
    /\ pc[o] = "record"
    /\ agents' = [agents EXCEPT ![o] = record_load(agents[o], agent[o])]
    /\ assignments' = [assignments EXCEPT ![o] = @ + 1]
    /\ counted' = [counted EXCEPT ![o] = @ \cup {ready_issues[o][pos[o]].id}]
    /\ pc' = [pc EXCEPT ![o] = "walk"]
    /\ UNCHANGED <<storeVars, ready_issues, pos, agent, assigned, response, queried,
                   spare0, attempts, lastClaim, load0, interruptedAt>>

\* run_daemon lines 111-112: KeyboardInterrupt is raised wherever the process
\* is, and the handler ends the loop.  The history of the abandoned cycle ends
\* with it; what the pool and the store hold stays.
Interrupt(o) ==
    /\ pc[o] \in {"idle", "walk", "claim", "record"}
    /\ interruptedAt' = [interruptedAt EXCEPT ![o] = pc[o]]
    /\ pc' = [pc EXCEPT ![o] = "terminated"]
    /\ DropLocals(o)
    /\ response' = [response EXCEPT ![o] = "none"]
    /\ queried' = [queried EXCEPT ![o] = <<>>]
    /\ spare0' = [spare0 EXCEPT ![o] = SpareCapacity(agents[o])]
    /\ attempts' = [attempts EXCEPT ![o] = <<>>]
    /\ lastClaim' = [lastClaim EXCEPT ![o] = "none"]
    /\ UNCHANGED <<storeVars, agents, assigned, counted, load0>>

Next ==
    \/ \E o \in Orchs : Query(o) /\ UNCHANGED recVars
    \/ \E o \in Orchs : Walk(o) /\ UNCHANGED recVars
    \/ \E o \in Orchs : Claim(o) /\ UNCHANGED recVars
    \/ \E o \in Orchs : RecordAssignment(o) /\ UNCHANGED recVars
    \/ \E o \in Orchs : Interrupt(o) /\ UNCHANGED recVars

Spec == Init /\ [][Next]_vars

SpecRank == InitRank /\ [][Next]_vars

SpecMulti == InitMulti /\ [][Next]_vars

-----------------------------------------------------------------------------
(* Timestamp reconciler: initial states and actions *)

\* The key under which a log records the kind of its events.
KindAttrs == {"type", "event_type"}

\* What line k of a log may be: an event of issue i1 or i2 appended at
\* instant k, or a line that does not parse.
LogLine(attr, k, c) ==
    CASE c = 1 -> Event("i1", attr, "issue_created", k)
      [] c = 2 -> Event("i1", attr, "issue_updated", k)
      [] c = 3 -> Event("i2", attr, "issue_updated", k)
      [] c = 4 -> Malformed

\* events.jsonl: absent, or up to MaxEvents lines in the order they were
\* appended, all with the same kind key.
EventFiles ==
    {[exists |-> FALSE, lines |-> <<>>]} \cup
    {[exists |-> TRUE, lines |-> [k \in DOMAIN c |-> LogLine(attr, k, c[k])]] :
        attr \in KindAttrs,
        c \in UNION {[1..n -> 1..4] : n \in 0..MaxEvents}}

\* The values a timestamp field holds before any pass: None for a field that
\* is not there.
StoredStamps == {None} \cup {LogStamp(t) : t \in 1..MaxStored}

\* Modification times of a record: before every event, or after.
MTimes == {0, MaxEvents + 1}

\* The record store: a first record of issue i1 with any timestamps or one
\* without an identifier, and a record of issue i2 without timestamps.
RecordStores ==
    {<<IssueFile(first, m), IssueFile(IssueRecord("i2", None, None), 0)>> :
        first \in {IssueRecord(None, None, None)} \cup
                  {IssueRecord("i1", c, u) : c \in StoredStamps, u \in StoredStamps},
        m \in MTimes}

\* No orchestrator runs: the scheduler's variables when only the reconciler is
\* looked at.
NoOrchestrator ==
    /\ issues = <<>>
    /\ assignee = <<>>
    /\ agents = <<>>
    /\ pc = <<>>
    /\ ready_issues = <<>>
    /\ pos = <<>>
    /\ agent = <<>>
    /\ assignments = <<>>
    /\ assigned = <<>>
    /\ response = <<>>
    /\ queried = <<>>
    /\ spare0 = <<>>
    /\ attempts = <<>>
    /\ lastClaim = <<>>
    /\ counted = <<>>
    /\ load0 = <<>>
    /\ interruptedAt = <<>>

InitReconcile ==
    /\ NoOrchestrator
    /\ files \in RecordStores
    /\ events_file \in EventFiles
    /\ script = "none"
    /\ dry_run = FALSE
    /\ events = <<>>
    /\ cursor = 0
    /\ modified_count = 0
    /\ results = <<>>
    /\ files0 = files
    /\ last = "none"
    /\ written = {}

\* main of either script up to its loop: the flag, the events, the sorted
\* list of issue files.
Start(s, flag) ==
    /\ script = "none"
    /\ script' = s
    /\ dry_run' = flag
    /\ events' = load_events(events_file)
    /\ cursor' = 0
    /\ modified_count' = 0
    /\ results' = <<>>
    /\ files0' = files
    /\ UNCHANGED <<files, events_file, last, written>>

\* One turn of main's loop: the per-issue function on the next file.
Call ==
    /\ script # "none"
    /\ cursor < Len(files)
    /\ LET k == cursor + 1
           r == per_issue(script, files[k], events, dry_run)
       IN
       /\ files' = [files EXCEPT ![k] = r.file]
       /\ results' = Append(results, r.modified)
       /\ modified_count' = IF r.modified THEN modified_count + 1 ELSE modified_count
       /\ written' = IF r.file # files[k] THEN written \cup {k} ELSE written
       /\ cursor' = k
    /\ UNCHANGED <<events_file, script, dry_run, events, files0, last>>

\* The loop is through: main prints its count and the script ends.
Finish ==
    /\ script # "none"
    /\ cursor = Len(files)
    /\ last' = IF dry_run THEN last ELSE script
    /\ script' = "none"
    /\ dry_run' = FALSE
    /\ events' = <<>>
    /\ cursor' = 0
    /\ modified_count' = 0
    /\ results' = <<>>
    /\ files0' = files
    /\ UNCHANGED <<files, events_file, written>>

NextReconcile ==
    \/ \E s \in Scripts, flag \in BOOLEAN : Start(s, flag) /\ UNCHANGED orchVars
    \/ Call /\ UNCHANGED orchVars
    \/ Finish /\ UNCHANGED orchVars

SpecReconcile == InitReconcile /\ [][NextReconcile]_vars

-----------------------------------------------------------------------------
(* Helpers of the properties *)

Spare(pool, k) == pool[k].current_load < pool[k].max_concurrent
Saturated(pool) == \A k \in DOMAIN pool : ~Spare(pool, k)
InCycle(o) == pc[o] \in {"walk", "claim", "record"}

\* The store's position of an issue dict the query returned.
QueriedIndex(o, i) == CHOOSE k \in DOMAIN queried[o] : queried[o][k] = i

\* The issues the store attributes to an agent of orchestrator o.
AttributedTo(o) ==
    {issues[k].id : k \in {j \in DOMAIN issues :
        \E a \in DOMAIN agents[o] : assignee[j] = agent_id_full(agents[o][a])}}

\* Orchestrator o called claim_issue in this step.
Attempted(o) == Len(attempts'[o]) > Len(attempts[o])

\* Orchestrator o took a step of its own.
Stepped(o) == pc'[o] # pc[o] \/ pos'[o] # pos[o] \/ response'[o] # response[o]

-----------------------------------------------------------------------------
(* C1 *)

\* C1: in every reachable state every agent of every pool has
\* 0 <= current_load <= max_concurrent, so the claims a pool has recorded
\* (its total load, and the issues it counted) never exceed the sum of
\* max_concurrent over its agents.
C1_CapacityInvariant ==
    \A o \in Orchs :
        /\ ValidPool(agents[o])
        /\ TotalLoad(agents[o]) <= TotalCapacity(agents[o])
        /\ load0[o] + Cardinality(counted[o]) <= TotalCapacity(agents[o])

\* A pool that started empty and that dispatch cycles have filled to the brim.
C1_Witness ==
    \E o \in Orchs :
        /\ load0[o] = 0
        /\ Cardinality(counted[o]) >= 2
        /\ Saturated(agents[o])

-----------------------------------------------------------------------------
(* C2 *)

\* C2: the assignment counter of a cycle, and the count the cycle returns, is
\* at most the number of ready issues the query returned and at most the total
\* spare capacity at the start of the cycle.
C2_AssignmentsBounded ==
    \A o \in Orchs :
        /\ InCycle(o) =>
            /\ assignments[o] <= Len(queried[o])
            /\ assignments[o] <= spare0[o]
        /\ pc[o] = "idle" =>
            /\ assigned[o] <= Len(queried[o])
            /\ assigned[o] <= spare0[o]

\* A finished cycle that capacity cut short: it assigned all the spare capacity
\* it started with and fewer issues than were ready.
C2_Witness ==
    \E o \in Orchs :
        /\ pc[o] = "idle"
        /\ assigned[o] >= 1
        /\ assigned[o] = spare0[o]
        /\ assigned[o] < Len(queried[o])

-----------------------------------------------------------------------------
(* C3 *)

\* C3: with several orchestrators against one store, no issue is counted as an
\* assignment by two orchestrators, every issue an orchestrator counted is
\* attributed by the store to one of its own agents, an orchestrator's load
\* grows by exactly the issues it counted (nothing for a lost race), and a
\* failed claim is followed by no load increment and does not end the process.
C3_NoDoubleClaim ==
    /\ \A o1, o2 \in Orchs : o1 # o2 => counted[o1] \cap counted[o2] = {}
    /\ \A o \in Orchs :
        /\ counted[o] \subseteq AttributedTo(o)
        /\ TotalLoad(agents[o]) = load0[o] + Cardinality(counted[o])
        /\ lastClaim[o] = "failed" => pc[o] \notin {"record", "crashed"}

\* An orchestrator lost the race for an issue that another one counted, and
\* went on to claim the next issue itself.
C3_Witness ==
    \E o1, o2 \in Orchs :
        /\ o1 # o2
        /\ Len(attempts[o1]) = 2
        /\ attempts[o1][1].id \in counted[o2]
        /\ attempts[o1][2].id \in counted[o1]

-----------------------------------------------------------------------------
(* C4 *)

\* A step of C4: a claim attempt the store refused changes no agent's load and not the
\* assignment counter, and leaves the orchestrator in its walk; the walk then
\* takes the next issue of the ranked list and chooses the same agent again.
C4_FailedClaimStep ==
    \A o \in Orchs :
        /\ (Attempted(o) /\ lastClaim'[o] = "failed") =>
            /\ agents' = agents
            /\ assignments' = assignments
            /\ pc'[o] = "walk"
            /\ pos'[o] = pos[o]
        /\ (pc[o] = "walk" /\ lastClaim[o] = "failed" /\ Stepped(o)
                /\ pos[o] < Len(ready_issues[o]) /\ pc'[o] # "terminated") =>
            /\ pc'[o] = "claim"
            /\ pos'[o] = pos[o] + 1
            /\ agent'[o] = agent[o]

\* C4: every step satisfies the above: a failed claim changes no load and no
\* counter, and the walk goes on to the next issue with the same agent.
C4_FailureKeepsAgent == [][C4_FailedClaimStep]_vars

\* The top-ranked claim failed; the second issue is about to be claimed for the
\* same agent.
C4_Witness ==
    \E o \in Orchs :
        /\ pc[o] = "claim"
        /\ lastClaim[o] = "failed"
        /\ Len(attempts[o]) = 1
        /\ pos[o] = 2
        /\ assignments[o] = 0

-----------------------------------------------------------------------------
(* C5 *)

\* C5: once the shutdown signal has ended an orchestrator, no claim is left
\* partially recorded: every issue the store attributes to its agents has had
\* its load increment and was counted as an assignment of a cycle that ran to
\* its end; and the orchestrator starts no further cycle.
C5_CycleCompletesOnShutdown ==
    \A o \in Orchs :
        pc[o] = "terminated" =>
            /\ AttributedTo(o) \subseteq counted[o]
            /\ TotalLoad(agents[o]) = load0[o] + Cardinality(AttributedTo(o))
            /\ ~ENABLED Query(o)

-----------------------------------------------------------------------------
(* C6 *)

EmptyOrFailed(o) ==
    \/ response[o] \in {"exit_nonzero", "not_json", "not_an_object"}
    \/ response[o] \in {"issues", "no_issues_key"} /\ queried[o] = <<>>

\* C6: after a query that returned an empty list or failed, the orchestrator
\* is back between cycles (not dead), the cycle returned 0, it made no claim
\* attempt and every load is what it was at the start of the cycle.
C6_QueryFailureYieldsZero ==
    \A o \in Orchs :
        (EmptyOrFailed(o) /\ pc[o] # "terminated") =>
            /\ pc[o] = "idle"
            /\ assigned[o] = 0
            /\ attempts[o] = <<>>
            /\ SpareCapacity(agents[o]) = spare0[o]

-----------------------------------------------------------------------------
(* C7 *)

Absent(i) == "priority" \notin DOMAIN i
Unrecognized(i) == ~Absent(i) /\ i.priority \notin DOMAIN priority_order
Known(i) == ~Absent(i) /\ i.priority \in DOMAIN priority_order

\* The ranked list puts every issue of X after every issue of Y.
SortsAfter(s, X(_), Y(_)) ==
    \A j, k \in DOMAIN s : (X(s[j]) /\ Y(s[k])) => k < j

CodeRank(i) ==
    CASE Absent(i) -> 2
      [] Unrecognized(i) -> 4
      [] i.priority = "critical" -> 0
      [] i.priority = "high" -> 1
      [] i.priority = "normal" -> 2
      [] i.priority = "low" -> 3

-----------------------------------------------------------------------------
(* C8 *)

\* i comes before j in the ranking: a strictly better rank, or the same rank
\* and an earlier place in the list the store returned.
RankedBefore(o, i, j) ==
    \/ sort_key(i) < sort_key(j)
    \/ sort_key(i) = sort_key(j) /\ QueriedIndex(o, i) < QueriedIndex(o, j)

\* C8: the claim attempts of a cycle are made in ranked order: of two attempted
\* issues the earlier one has the better rank, or the same rank and the earlier
\* place in the store's answer; and every ready issue that ranks before an
\* attempted issue was attempted before it.
C8_AttemptsInRankedOrder ==
    \A o \in Orchs :
        \A k \in DOMAIN attempts[o] :
            /\ \A j \in 1..(k - 1) : RankedBefore(o, attempts[o][j], attempts[o][k])
            /\ \A q \in DOMAIN queried[o] :
                RankedBefore(o, queried[o][q], attempts[o][k]) =>
                    \E j \in 1..(k - 1) : attempts[o][j] = queried[o][q]

\* Three attempts: the store's last issue first, for its better rank, then two
\* issues of one rank in the store's order.
C8_Witness ==
    \E o \in Orchs :
        /\ Len(attempts[o]) = 3
        /\ Len(queried[o]) = 3
        /\ attempts[o][1] = queried[o][3]
        /\ attempts[o][2] = queried[o][1]
        /\ attempts[o][3] = queried[o][2]
        /\ sort_key(attempts[o][2]) = sort_key(attempts[o][3])
        /\ attempts[o][2] # [attempts[o][3] EXCEPT !.id = attempts[o][2].id]

-----------------------------------------------------------------------------
(* C9 *)

\* A step of C9: when the walk comes to an issue and no agent has spare capacity, the
\* cycle ends there: it returns the count so far, and no claim attempt is made
\* and nothing changes in the store; a claim attempt is only ever made while
\* some agent has spare capacity.
C9_SaturatedStep ==
    \A o \in Orchs :
        /\ (pc[o] = "walk" /\ Saturated(agents[o]) /\ Stepped(o)
                /\ pc'[o] # "terminated") =>
            /\ pc'[o] = "idle"
            /\ assigned'[o] = assignments[o]
            /\ attempts'[o] = attempts[o]
            /\ assignee' = assignee
            /\ agents' = agents
        /\ Attempted(o) => ~Saturated(agents[o])

\* C9: every step satisfies the above: with no spare capacity the walk stops
\* at once, no claim is attempted for this or any later issue of the cycle, and
\* the issues left are still ready for the next cycle.
C9_WalkStopsWhenSaturated == [][C9_SaturatedStep]_vars

\* The scenario of the claim: agents A(max=1, load=0), B(max=1, load=1), ready
\* issues i1 high and i2 critical; i2 was claimed for A, i1 was not attempted
\* and is still ready, and the cycle returned 1.
C9_Witness ==
    /\ issues = <<[id |-> "i1", priority |-> "high"],
                  [id |-> "i2", priority |-> "critical"]>>
    /\ agents[1] = <<Agent("w1-1", 1, 1), Agent("w1-2", 1, 1)>>
    /\ load0[1] = 1
    /\ spare0[1] = 1
    /\ queried[1] = issues
    /\ attempts[1] = <<issues[2]>>
    /\ assignee = <<"", "agent:w1-1">>
    /\ pc[1] = "idle"
    /\ assigned[1] = 1

-----------------------------------------------------------------------------
(* C10 *)

\* C10: get_available_agent returns the first agent of the pool with
\* current_load < max_concurrent, never a saturated one, and None exactly when
\* every agent is saturated; so the agent of a claim attempt, and of the load
\* increment after it, has spare capacity and no agent before it has any.
C10_FirstAvailableAgent ==
    \A o \in Orchs :
        LET pool == agents[o]
            a == get_available_agent(pool)
        IN
        /\ a = 0 <=> Saturated(pool)
        /\ a # 0 =>
            /\ a \in DOMAIN pool
            /\ Spare(pool, a)
            /\ \A j \in 1..(a - 1) : ~Spare(pool, j)
        /\ pc[o] \in {"claim", "record"} =>
            /\ agent[o] \in DOMAIN pool
            /\ Spare(pool, agent[o])
            /\ \A j \in 1..(agent[o] - 1) : ~Spare(pool, j)

\* A claim attempt for the second agent, the first being saturated by this
\* cycle's earlier assignment.
C10_Witness ==
    \E o \in Orchs :
        /\ pc[o] = "claim"
        /\ agent[o] = 2
        /\ ~Spare(agents[o], 1)
        /\ assignments[o] >= 1

-----------------------------------------------------------------------------
(* Helpers of the reconciler's properties *)

Stamps == {"created_at", "updated_at"}

\* The pass in progress has written file k.
WrittenNow(k) == k \in 1..cursor /\ ~dry_run /\ results[k]

\* The events of the issue of file k, as the pass in progress loaded them.
IssueEvents(k) == issue_events_of(DictGet(files0[k].issue, "id", None), events)

\* The timestamps of a sequence of events.
TimestampsOf(evs) == [j \in DOMAIN evs |-> evs[j].timestamp]

-----------------------------------------------------------------------------
(* C11 *)

\* C11: migrate never overwrites a value that is there: during a pass of the
\* migrate script every record has, in each timestamp field it had when the
\* pass started, the value it had then; in particular a record that had
\* exactly one of the two fields.
C11_MigrateKeepsExisting ==
    script = "migrate" =>
        \A k \in DOMAIN files :
            \A f \in Stamps \cap DOMAIN files0[k].issue :
                /\ f \in DOMAIN files[k].issue
                /\ files[k].issue[f] = files0[k].issue[f]

-----------------------------------------------------------------------------
(* C12 *)

\* C12: a pass of a script that is no dry run, made after a pass of the same
\* script that was no dry run either, changes nothing: each of its per-issue
\* calls returns False and the record store stays as the first pass left it.
\* (A dry run in between leaves the store alone.)
C12_SecondPassChangesNothing ==
    (script \in Scripts /\ ~dry_run /\ last = script) =>
        /\ files = files0
        /\ \A k \in DOMAIN results : results[k] = FALSE
        /\ modified_count = 0

\* The second of two migrate passes is through, the first having written both
\* records.
C12_Witness ==
    /\ script = "migrate"
    /\ ~dry_run
    /\ last = "migrate"
    /\ cursor = Len(files)
    /\ written = DOMAIN files
    /\ Len(results) = 2

\* The second of two repair passes is through, the first having corrected a
\* record.
C12_RepairTwice ==
    /\ script = "repair"
    /\ ~dry_run
    /\ last = "repair"
    /\ cursor = Len(files)
    /\ files[1].format = "indent2"
    /\ files[2].format = "stored"

-----------------------------------------------------------------------------
(* C13 *)

\* An event is a creation marker, under whichever key the log has its kind.
IsCreationMarker(e) == \E attr \in KindAttrs : DictGet(e, attr, None) = "issue_created"

\* The events of the issue of file k are a creation marker at t0 and two more
\* events at t1 and t2, t0 < t1 < t2.
C13_Scenario(k) ==
    LET evs == IssueEvents(k) IN
    /\ Len(evs) = 3
    /\ IsCreationMarker(evs[1])
    /\ At(evs[1].timestamp) < At(evs[2].timestamp)
    /\ At(evs[2].timestamp) < At(evs[3].timestamp)

\* C13: a repair of an issue whose events are e0 (creation marker) at t0, e1
\* at t1 and e2 at t2, t0 < t1 < t2, leaves the record with created_at = t0
\* and updated_at = t2, whatever the two fields held before, absent fields
\* included.
C13_RepairYieldsFirstAndLast ==
    (script = "repair" /\ ~dry_run) =>
        \A k \in 1..cursor :
            C13_Scenario(k) =>
                /\ Stamps \subseteq DOMAIN files[k].issue
                /\ files[k].issue.created_at = IssueEvents(k)[1].timestamp
                /\ files[k].issue.updated_at = IssueEvents(k)[3].timestamp

-----------------------------------------------------------------------------
(* C14 *)

\* The created_at of the contract for file k: the timestamp of the earliest
\* creation marker among the issue's events; without a marker that of the
\* first event; without events the record's modification time.
ContractCreatedAt(k) ==
    LET evs == IssueEvents(k)
        markers == {j \in DOMAIN evs : IsCreationMarker(evs[j])}
    IN  IF evs = <<>> THEN get_file_mtime_rfc3339(files0[k])
        ELSE IF markers # {} THEN evs[LeastOf(markers)].timestamp
        ELSE evs[1].timestamp

\* C14: the created_at a pass writes for an issue is the timestamp of the
\* earliest creation marker of the issue's events if there is one, otherwise
\* the timestamp of the issue's first event, and the record's modification
\* time only when the issue has no events; under either kind key and
\* wherever the marker sits.
C14_DerivedCreatedAt ==
    \A k \in DOMAIN files :
        WrittenNow(k) => files[k].issue.created_at = ContractCreatedAt(k)

-----------------------------------------------------------------------------
(* C15 *)

\* The updated_at of the contract for file k: the timestamp of the issue's
\* last event; without events the record's modification time.
ContractUpdatedAt(k) ==
    LET evs == IssueEvents(k) IN
    IF evs = <<>> THEN get_file_mtime_rfc3339(files0[k])
    ELSE evs[Len(evs)].timestamp

ContractValue(k, f) ==
    IF f = "created_at" THEN ContractCreatedAt(k) ELSE ContractUpdatedAt(k)

\* C15: for an issue with at least one event, a pass never writes a
\* created_at later than the issue's earliest event, and never replaces a
\* timestamp that was correct already by another value.
C15_NeverLaterNeverWorse ==
    \A k \in DOMAIN files :
        (WrittenNow(k) /\ IssueEvents(k) # <<>>) =>
            /\ At(files[k].issue.created_at) <= At(IssueEvents(k)[1].timestamp)
            /\ \A f \in Stamps \cap DOMAIN files0[k].issue :
                files0[k].issue[f] = ContractValue(k, f) =>
                    files[k].issue[f] = files0[k].issue[f]

-----------------------------------------------------------------------------
(* C16 *)

\* C16: after any passes over a log in chronological order, whatever the
\* modification times, every record the reconciler has written, both of whose
\* timestamps it set, has created_at <= updated_at.
C16_CreatedNotAfterUpdated ==
    \A k \in written :
        At(files[k].issue.created_at) <= At(files[k].issue.updated_at)

-----------------------------------------------------------------------------
(* C17 *)

\* What a pass of the running script that is no dry run does with file k as
\* it was when the pass started.
LiveCall(k) == per_issue(script, files0[k], events, FALSE)

\* C17: a dry run persists nothing: during a pass with dry_run set the record
\* store is as it was when the pass started; and each per-issue call returns
\* True exactly when the same call of a pass without dry_run returns True,
\* which is exactly when that call changes the record.
C17_DryRunPersistsNothing ==
    (script \in Scripts /\ dry_run) =>
        /\ files = files0
        /\ \A k \in DOMAIN results :
            /\ results[k] = LiveCall(k).modified
            /\ results[k] <=> (LiveCall(k).file.issue # files0[k].issue)

\* A dry run of repair is through: it reported the first record, whose stored
\* timestamps are not the log's, and not the second, which a migrate pass
\* wrote before; neither file was touched by it.
C17_Witness ==
    /\ script = "repair"
    /\ dry_run
    /\ cursor = Len(files)
    /\ results = <<TRUE, FALSE>>
    /\ files[1].format = "stored"
    /\ files[2].format = "indent2"

-----------------------------------------------------------------------------
(* C18 *)

-----------------------------------------------------------------------------
(* C19 *)

\* A dict without its two timestamp fields.
OtherFields(issue) == [f \in DOMAIN issue \ Stamps |-> issue[f]]

\* C19: a pass writes with merge-patch semantics: every field of a record
\* other than created_at and updated_at keeps its value; a record the loop
\* has not come to is untouched, a call changes no record but its own; and a
\* record without an identifier is skipped, unchanged, with the pass going on
\* to the records after it.
C19_MergePatch ==
    script \in Scripts =>
        /\ \A k \in DOMAIN files :
            /\ OtherFields(files[k].issue) = OtherFields(files0[k].issue)
            /\ k > cursor => files[k] = files0[k]
            /\ (k <= cursor /\ ~results[k]) => files[k] = files0[k]
            /\ falsy(DictGet(files0[k].issue, "id", None)) =>
                /\ files[k] = files0[k]
                /\ k <= cursor => ~results[k]
        /\ Len(results) = cursor
        /\ cursor < Len(files) => ENABLED Call

\* A pass that is no dry run has skipped the first record, which has no
\* identifier, and gone on to write the second, whose title it kept.
C19_Witness ==
    /\ script = "migrate"
    /\ ~dry_run
    /\ cursor = 2
    /\ "id" \notin DOMAIN files[1].issue
    /\ results = <<FALSE, TRUE>>
    /\ files[1] = files0[1]
    /\ files[2].format = "indent2"
    /\ files[2].issue.title = files0[2].issue.title
    /\ Stamps \subseteq DOMAIN files[2].issue
    /\ Stamps \cap DOMAIN files0[2].issue = {}

-----------------------------------------------------------------------------
(* C20 *)

\* A step of C20: no load goes down; a cycle's start and end leave the pool as
\* it is; the assignments counted in the process's lifetime fit the capacity
\* that was spare at construction; and with every agent saturated the pool
\* stays saturated, no claim is attempted and the cycle returns 0.
C20_Step ==
    \A o \in Orchs :
        /\ \A k \in DOMAIN agents[o] :
            agents'[o][k].current_load >= agents[o][k].current_load
        /\ (pc[o] = "idle" \/ pc'[o] = "idle") => agents'[o] = agents[o]
        /\ Cardinality(counted'[o]) = TotalLoad(agents'[o]) - load0[o]
        /\ Cardinality(counted'[o]) <= TotalCapacity(agents[o]) - load0[o]
        /\ Saturated(agents[o]) =>
            /\ Saturated(agents'[o])
            /\ ~Attempted(o)
            /\ pc'[o] \notin {"claim", "record"}
            /\ (Stepped(o) /\ pc'[o] = "idle" /\ spare0'[o] = 0) => assigned'[o] = 0

\* C20: an agent's current_load never decreases and carries over from one
\* cycle to the next; so once every agent is saturated, after at most
\* sum(max_concurrent) - sum(initial load) assignments, every later cycle
\* attempts no claim and returns 0, and an issue deferred to the next cycle is
\* not assigned by this orchestrator in any later cycle.
C20_SaturationAbsorbing == [][C20_Step]_vars

\* A cycle that started with the pool saturated by this process's own
\* assignments has returned 0, although the store answered with a ready issue
\* that is still unclaimed.
C20_Witness ==
    \E o \in Orchs :
        /\ pc[o] = "idle"
        /\ Saturated(agents[o])
        /\ counted[o] # {}
        /\ spare0[o] = 0
        /\ response[o] = "issues"
        /\ assigned[o] = 0
        /\ \E k \in DOMAIN issues : assignee[k] = "" /\ issues[k] \in {queried[o][j] : j \in DOMAIN queried[o]}

====
